---- MODULE Spec2Model ----
(***************************************************************************)
(* The per-frame stereo presentation loop of src/Minimal/main.cpp:         *)
(* GlfwApp::run, RiftApp::draw, ExampleApp::renderScene and Scene::render. *)
(*                                                                         *)
(* Numbers.  Trigger values are in tenths (0.5 is 5).  Thumbstick          *)
(* deflections are in halves (x = 1.0 is 2).  iod, iodOffset and the       *)
(* effective interocular distance are in units of 0.005, so that           *)
(* Thumbstick.x / 100 is the stick value itself; cubeScale is in units of  *)
(* 0.05, so that Thumbstick.x / 10 is the stick value itself.              *)
(*                                                                         *)
(* Poses.  A rigid transform (glm::mat4 of a pose) is a record             *)
(* [rot, pos]: rot counts quarter turns about the vertical axis, pos is    *)
(* the translation in the horizontal plane.  The device's pose of eye e    *)
(* in frame f has position <<f, e>>, so every predicted pose is distinct.  *)
(***************************************************************************)
EXTENDS Integers, Sequences, FiniteSets, TLC

VARIABLES
    scenario,       \* which controls the operator uses in this run
    pc,             \* position in GlfwApp::run / RiftApp::draw
    frame,          \* GlfwApp::frame
    shouldClose,    \* glfwWindowShouldClose(window)
    eyePoses,       \* draw's eyePoses[2]
    calls,          \* renderScene calls of this frame still to be made
    a_pressed, a_hasPressed, riftInput,
    x_pressed, x_hasPressed,
    b_pressed, b_hasPressed,
    leftIndexP, rightIndexP, leftThumbP, rightThumbP,
    ldelayRender, rdelayRender,
    leftCurFrame, rightCurFrame, renderFrame,
    cubeScale, iodOffset, HmdToEyePose,
    rotation, position,
    lringBuffer, rringBuffer, cringBuffer,
    lagNum, delayNum,
    inputState,     \* ExampleApp::inputState: the last snapshot read
    whichEye, headPose, lagFrame, outputFrame, right, drawView,
    RenderPose,     \* _sceneLayer.RenderPose[2]
    submitResult,   \* what the last ovr_SubmitFrame returned
    events,         \* history: the operations of the current frame, in order
    lrec, rrec,     \* history: every pose pushed into each eye's buffer
    lrun, rrun,     \* history: calls per eye since delayNum last changed
    nCalls          \* history: renderScene calls made so far in this frame

progVars == <<pc, frame, shouldClose, eyePoses, calls, a_pressed, a_hasPressed,
              riftInput, x_pressed, x_hasPressed, b_pressed, b_hasPressed,
              leftIndexP, rightIndexP, leftThumbP, rightThumbP,
              ldelayRender, rdelayRender, leftCurFrame, rightCurFrame,
              renderFrame, cubeScale, iodOffset, HmdToEyePose, rotation,
              position, lringBuffer, rringBuffer, cringBuffer, lagNum,
              delayNum, inputState, whichEye, headPose, lagFrame,
              outputFrame, right, drawView, RenderPose, submitResult>>

vars == <<scenario, progVars, events, lrec, rrec, lrun, rrun, nCalls>>

----------------------------------------------------------------------------
(* Bounds of the model: the number of frames run in each scenario, and the *)
(* largest magnitude the accumulated interocular offset is followed to.    *)

FramesLag    == 61
FramesDelay  == 11
FramesBoth   == 4
FramesView   == 4
FramesMode   == 5
FramesIod    == 13
FramesSubmit == 4
FramesLine   == 63
FramesHold   == 5
FramesContent == 2
MaxIodOffset == 50

(* Program constants. *)
Capacity   == 60      \* entries pushed by the constructor
Half       == 5       \* the trigger threshold 0.5f
MaxDelay   == 10      \* the clamp of delayNum
iod        == 13      \* default interocular distance reported by the device
MinIOD     == -20     \* -0.1f
MaxIOD     == 60      \* 0.3f
MaxScale   == 20      \* 1.0f

----------------------------------------------------------------------------
(* Rigid transforms.                                                       *)

\* glm::mat4(1.0f)
Identity == [rot |-> 0, pos |-> <<0, 0>>]

\* a quarter-turn rotation applied k times to the vector v
Rotate(k, v) ==
    CASE k % 4 = 0 -> v
      [] k % 4 = 1 -> <<-v[2], v[1]>>
      [] k % 4 = 2 -> <<-v[1], -v[2]>>
      [] k % 4 = 3 -> <<v[2], -v[1]>>

\* glm::inverse of a rigid transform: R^-1, and -R^-1 t
inverse(m) ==
    LET r == (4 - m.rot) % 4
        t == Rotate(r, m.pos)
    IN  [rot |-> r, pos |-> <<-t[1], -t[2]>>]

\* glm::mat3(m): the rotation part
mat3(m) == m.rot

\* m[3]: the translation column
col3(m) == m.pos

\* ovr::toGlm(const ovrPosef&): translation * orientation
toGlm(op) == [rot |-> op.Orientation % 4, pos |-> op.Position]

\* ovr_GetEyePoses: the predicted pose of one eye in frame f, head turned by yaw
EyePose(eye, f, yaw) == [Orientation |-> yaw, Position |-> <<f, eye>>]

\* ovr_GetTrackingState(...).HandPoses[1].ThePose.Position in frame f
HandPosition(f) == <<f, 0, 0>>

----------------------------------------------------------------------------
(* Scenarios bound the inputs: the buttons, sticks and triggers that are   *)
(* operated, the head orientations, failures of ovr_GetInputState, the     *)
(* results of ovr_SubmitFrame, the first frame in which the A button is    *)
(* touched, and the number of frames.                                      *)

\* what ovr_SubmitFrame can return: ovrSuccess, the loss of the device
\* (ovrError_DisplayLost) and a failure that a later submit can recover from
SubmitResults == {"Success", "DeviceLost", "SubmitRetry"}

Quiet == [frames |-> 0, buttons |-> {}, stickL |-> {0}, stickR |-> {0},
          index0 |-> {Half}, index1 |-> {Half},
          hand0 |-> {Half}, hand1 |-> {Half},
          ok |-> {TRUE}, drawOk |-> {TRUE}, yaw |-> {1},
          submit |-> {"Success"}, aFrom |-> 1]

Scenarios ==
    [lag   |-> [Quiet EXCEPT !.frames = FramesLag,
                             !.index0 = {Half, Half + 1},
                             !.index1 = {Half, Half + 1}],
     delay |-> [Quiet EXCEPT !.frames = FramesDelay,
                             !.hand0 = {Half, Half + 1},
                             !.hand1 = {Half, Half + 1}],
     both  |-> [Quiet EXCEPT !.frames = FramesBoth,
                             !.index1 = {Half, Half + 1},
                             !.hand1 = {Half, Half + 1}],
     view  |-> [Quiet EXCEPT !.frames = FramesView,
                             !.buttons = {"B"},
                             !.hand1 = {Half, Half + 1},
                             !.yaw = {0, 1}],
     mode  |-> [Quiet EXCEPT !.frames = FramesMode,
                             !.buttons = {"A", "B", "X"},
                             !.ok = BOOLEAN,
                             !.drawOk = BOOLEAN],
     iod   |-> [Quiet EXCEPT !.frames = FramesIod,
                             !.buttons = {"RThumb"},
                             !.stickR = {-2, -1, 0, 1, 2}],
     submit |-> [Quiet EXCEPT !.frames = FramesSubmit,
                              !.buttons = {"B"},
                              !.drawOk = BOOLEAN,
                              !.submit = SubmitResults],
     line   |-> [Quiet EXCEPT !.frames = FramesLine,
                              !.buttons = {"A"},
                              !.aFrom = Capacity + 1,
                              !.index1 = {Half, Half + 1}],
     hold   |-> [Quiet EXCEPT !.frames = FramesHold,
                              !.buttons = {"A"},
                              !.hand0 = {Half, Half + 1},
                              !.hand1 = {Half, Half + 1}],
     content |-> [Quiet EXCEPT !.frames = FramesContent,
                               !.buttons = {"A", "B", "X"},
                               !.index1 = {Half, Half + 1},
                               !.hand1 = {Half, Half + 1}]]

S == Scenarios[scenario]

\* the snapshots ovr_GetInputState can return to renderScene
Snapshots ==
    [Buttons      : SUBSET (S.buttons \ {"A"}),
     Thumbstick   : S.stickL \X S.stickR,
     IndexTrigger : S.index0 \X S.index1,
     HandTrigger  : S.hand0 \X S.hand1]

NoInput == [Buttons |-> {}, Thumbstick |-> <<0, 0>>,
            IndexTrigger |-> <<0, 0>>, HandTrigger |-> <<0, 0>>]

----------------------------------------------------------------------------
(* The steps of ExampleApp::renderScene, as functions of the state they    *)
(* read.                                                                   *)

\* PopPush without the pop_front
PopPush_NoPop(buf, v) == Append(buf, v)

\* pop_front(); push_back(v)
PopPush(buf, v) == Append(Tail(buf), v)

\* Lagged counting from the head of the deque
Lagged_FromHead(buf, lag) == buf[lag + 1]

\* buf[60 - lagNum - 1], the deque being indexed from 0
Lagged(buf, lag) == buf[(60 - lag - 1) + 1]

\* XStep advancing on every call that sees the button down
XStep_Level(count, has, down) ==
    [count |-> IF down THEN (count + 1) % 3 ELSE count,
     has   |-> IF down THEN TRUE ELSE FALSE]

\* the X button: x_pressed cycles modulo 3 on a press
XStep(count, has, down) ==
    [count |-> IF down /\ ~has THEN (count + 1) % 3 ELSE count,
     has   |-> IF down THEN TRUE ELSE FALSE]

\* BStep advancing on every call that sees the button down
BStep_Level(count, has, rot, pos, down, hp) ==
    LET invHeadPose == inverse(hp)
    IN  [count |-> IF down THEN (count + 1) % 4 ELSE count,
         rot   |-> IF down THEN mat3(invHeadPose) ELSE rot,
         pos   |-> IF down THEN col3(invHeadPose) ELSE pos,
         has   |-> IF down THEN TRUE ELSE FALSE]

\* the B button: b_pressed cycles modulo 4 on a press, and the inverse of
\* the head pose passed to this call is captured
BStep(count, has, rot, pos, down, hp) ==
    LET edge == down /\ ~has
        invHeadPose == inverse(hp)
    IN  [count |-> IF edge THEN (count + 1) % 4 ELSE count,
         rot   |-> IF edge THEN mat3(invHeadPose) ELSE rot,
         pos   |-> IF edge THEN col3(invHeadPose) ELSE pos,
         has   |-> IF down THEN TRUE ELSE FALSE]

\* the left thumbstick scales the cubes, clamped to [-1, 1]; LThumb resets
ScaleStep(scale, x, reset) ==
    LET s1 == IF x # 0 THEN scale + x ELSE scale
        s2 == IF x # 0 /\ s1 > MaxScale THEN MaxScale ELSE s1
        s3 == IF x # 0 /\ s2 < -MaxScale THEN -MaxScale ELSE s2
    IN  IF reset THEN 0 ELSE s3

\* RiftApp::setIOD: the half distances written to HmdToEyePose[0..1].Position.x,
\* in halves of the unit
setIOD(offset) ==
    LET n0 == iod + offset
        n1 == IF n0 < MinIOD THEN MinIOD ELSE n0
        newIOD == IF n1 > MaxIOD THEN MaxIOD ELSE n1
    IN  <<-newIOD, newIOD>>

\* the right thumbstick accumulates iodOffset; RThumb resets it
IodStep(offset, eyes, x, reset) ==
    LET o1 == IF x # 0 THEN offset + x ELSE offset
        e1 == IF x # 0 THEN setIOD(o1) ELSE eyes
    IN  IF reset THEN [offset |-> 0, eyes |-> setIOD(0)]
                 ELSE [offset |-> o1, eyes |-> e1]

\* the index triggers: left decrements lagNum, right increments it
LagStep(lag, leftP, rightP, t0, t1) ==
    LET dec == t0 > Half /\ ~leftP /\ lag > 0
        n1  == IF dec THEN (lag - 1) % 60 ELSE lag
        lp1 == IF dec THEN TRUE ELSE leftP
        lp2 == IF t0 <= Half /\ lp1 THEN FALSE ELSE lp1
        inc == t1 > Half /\ ~rightP
        n2  == IF inc THEN (n1 + 1) % 60 ELSE n1
        rp1 == IF inc THEN TRUE ELSE rightP
        rp2 == IF t1 <= Half /\ rp1 THEN FALSE ELSE rp1
    IN  [lagNum |-> n2, leftIndexP |-> lp2, rightIndexP |-> rp2]

\* DelayStep without the clamp at 10
DelayStep_NoClamp(delay, leftP, rightP, t0, t1) ==
    LET dec == t0 > Half /\ ~leftP /\ delay > 0
        d1  == IF dec THEN delay - 1 ELSE delay
        lp1 == IF dec THEN TRUE ELSE leftP
        lp2 == IF t0 <= Half /\ lp1 THEN FALSE ELSE lp1
        inc == t1 > Half /\ ~rightP
        d3  == IF inc THEN d1 + 1 ELSE d1
        rp1 == IF inc THEN TRUE ELSE rightP
        rp2 == IF t1 <= Half /\ rp1 THEN FALSE ELSE rp1
    IN  [delayNum |-> d3, leftThumbP |-> lp2, rightThumbP |-> rp2]

\* the hand triggers: left decrements delayNum, right increments it
DelayStep(delay, leftP, rightP, t0, t1) ==
    LET dec == t0 > Half /\ ~leftP /\ delay > 0
        d1  == IF dec THEN delay - 1 ELSE delay
        lp1 == IF dec THEN TRUE ELSE leftP
        d2  == IF t0 > Half /\ d1 < 0 THEN 0 ELSE d1
        lp2 == IF t0 <= Half /\ lp1 THEN FALSE ELSE lp1
        inc == t1 > Half /\ ~rightP
        d3  == IF inc THEN d2 + 1 ELSE d2
        rp1 == IF inc THEN TRUE ELSE rightP
        d4  == IF t1 > Half /\ d3 >= MaxDelay THEN MaxDelay ELSE d3
        rp2 == IF t1 <= Half /\ rp1 THEN FALSE ELSE rp1
    IN  [delayNum |-> d4, leftThumbP |-> lp2, rightThumbP |-> rp2]

\* DelayHold resetting a counter only once it is above delayNum
DelayHold_OneMore(eye, hp, ld, rd, lcur, rcur, rf, delay) ==
    LET capL == ld = 0 /\ eye = 0
        lcur1 == IF capL THEN hp ELSE lcur
        rf1   == IF capL THEN lcur1 ELSE rf
        capR == rd = 0 /\ eye = 1
        rcur1 == IF capR THEN hp ELSE rcur
        rf2   == IF capR THEN rcur1 ELSE rf1
        holdL == ld <= delay /\ eye = 0
        rf3   == IF holdL THEN lcur1 ELSE rf2
        ld1   == IF holdL THEN ld + 1 ELSE ld
        holdR == rd <= delay /\ eye = 1
        rf4   == IF holdR THEN rcur1 ELSE rf3
        rd1   == IF holdR THEN rd + 1 ELSE rd
    IN  [ldelayRender  |-> IF ld1 > delay THEN 0 ELSE ld1,
         rdelayRender  |-> IF rd1 > delay THEN 0 ELSE rd1,
         leftCurFrame  |-> lcur1,
         rightCurFrame |-> rcur1,
         renderFrame   |-> rf4]

\* DelayHold resetting only the counter of the eye the call is for
DelayHold_OwnReset(eye, hp, ld, rd, lcur, rcur, rf, delay) ==
    LET capL == ld = 0 /\ eye = 0
        lcur1 == IF capL THEN hp ELSE lcur
        rf1   == IF capL THEN lcur1 ELSE rf
        capR == rd = 0 /\ eye = 1
        rcur1 == IF capR THEN hp ELSE rcur
        rf2   == IF capR THEN rcur1 ELSE rf1
        holdL == ld < delay /\ eye = 0
        rf3   == IF holdL THEN lcur1 ELSE rf2
        ld1   == IF holdL THEN ld + 1 ELSE ld
        holdR == rd < delay /\ eye = 1
        rf4   == IF holdR THEN rcur1 ELSE rf3
        rd1   == IF holdR THEN rd + 1 ELSE rd
    IN  [ldelayRender  |-> IF ld1 >= delay /\ eye = 0 THEN 0 ELSE ld1,
         rdelayRender  |-> IF rd1 >= delay /\ eye = 1 THEN 0 ELSE rd1,
         leftCurFrame  |-> lcur1,
         rightCurFrame |-> rcur1,
         renderFrame   |-> rf4]

\* the render delay: each eye's pose is captured when its counter is 0 and
\* held while the counter is below delayNum
DelayHold(eye, hp, ld, rd, lcur, rcur, rf, delay) ==
    LET capL == ld = 0 /\ eye = 0
        lcur1 == IF capL THEN hp ELSE lcur
        rf1   == IF capL THEN lcur1 ELSE rf
        capR == rd = 0 /\ eye = 1
        rcur1 == IF capR THEN hp ELSE rcur
        rf2   == IF capR THEN rcur1 ELSE rf1
        holdL == ld < delay /\ eye = 0
        rf3   == IF holdL THEN lcur1 ELSE rf2
        ld1   == IF holdL THEN ld + 1 ELSE ld
        holdR == rd < delay /\ eye = 1
        rf4   == IF holdR THEN rcur1 ELSE rf3
        rd1   == IF holdR THEN rd + 1 ELSE rd
    IN  [ldelayRender  |-> IF ld1 >= delay THEN 0 ELSE ld1,
         rdelayRender  |-> IF rd1 >= delay THEN 0 ELSE rd1,
         leftCurFrame  |-> lcur1,
         rightCurFrame |-> rcur1,
         renderFrame   |-> rf4]

\* SelectOutput with the lag taking precedence over the delay
SelectOutput_LagFirst(hp, lagF, rf, lag, delay) ==
    LET o1 == IF delay > 0 THEN rf ELSE hp
    IN  IF lag > 0 THEN lagF ELSE o1

\* the pose handed to the scene: the lagged pose if lagNum > 0, overwritten
\* by the held pose if delayNum > 0
SelectOutput(hp, lagF, rf, lag, delay) ==
    LET o1 == IF lag > 0 THEN lagF ELSE hp
    IN  IF delay > 0 THEN rf ELSE o1

\* SceneRender using the live translation in the fully frozen mode
SceneRender_LiveOrigin(dv, view, b, rot, pos) ==
    LET d0 == IF b = 0 THEN view ELSE dv
        d2 == IF b = 2 THEN [rot |-> view.rot, pos |-> pos] ELSE d0
    IN  IF b = 1 \/ b = 3 THEN [rot |-> rot, pos |-> col3(view)] ELSE d2

\* SceneRender with the view modes 1 and 2 exchanged
SceneRender_Swapped(dv, view, b, rot, pos) ==
    LET d0 == IF b = 0 THEN view ELSE dv
        d2 == IF b = 1 THEN [rot |-> view.rot, pos |-> pos] ELSE d0
        d1 == IF b = 2 THEN [rot |-> rot, pos |-> col3(view)] ELSE d2
    IN  IF b = 3 THEN [rot |-> rot, pos |-> pos] ELSE d1

\* Scene::render: the camera transform drawView for the view mode b
SceneRender(dv, view, b, rot, pos) ==
    LET d0 == IF b = 0 THEN view ELSE dv
        d2 == IF b = 2 THEN [rot |-> view.rot, pos |-> pos] ELSE d0
        d1 == IF b = 1 THEN [rot |-> rot, pos |-> col3(view)] ELSE d2
    IN  IF b = 3 THEN [rot |-> rot, pos |-> pos] ELSE d1

\* history: RiftApp::draw before the eyes: the eye poses are predicted, the
\* current swap-chain texture is acquired, attached to the framebuffer and
\* cleared, and the input state is read
BeginFrameEvents ==
    <<<<"GetEyePoses">>, <<"acquire">>, <<"bind">>, <<"clear">>,
      <<"GetInputState">>>>

\* history: one eye of RiftApp::draw, rendering the viewport of `eye` with
\* renderScene called for the eye index w
CallEvents(eye, w) ==
    <<<<"viewport", eye>>, <<"RenderPose", eye>>, <<"renderScene", eye>>,
      <<"push", w>>, <<"recordCursor">>, <<"lagged", w>>, <<"resolve", w>>,
      <<"draw", w>>>>

\* EndFrameEvents blitting the mirror before the frame is submitted
EndFrameEvents_BlitFirst ==
    <<<<"unbind">>, <<"blit">>, <<"commit">>, <<"submit">>, <<"present">>>>

\* history: RiftApp::draw after the eyes, and finishFrame: the texture is
\* detached, the swap chain committed, the frame submitted, the mirror
\* texture blitted to the window and the window's buffers swapped
EndFrameEvents ==
    <<<<"unbind">>, <<"commit">>, <<"submit">>, <<"blit">>, <<"present">>>>

\* history: the number of calls made for one eye, the current call included
\* if it is for that eye (mine), since the last call of any eye that changed
\* delayNum
Run(run, mine, changed) ==
    (IF changed THEN 0 ELSE run) + (IF mine THEN 1 ELSE 0)

----------------------------------------------------------------------------
(* The state after ExampleApp's construction.  The matrices the            *)
(* constructors leave unset (leftCurFrame, rightCurFrame, renderFrame,     *)
(* rotation, position, drawView) are written before they are first read;   *)
(* they start as the identity here.                                        *)

InitIn(names) ==
    /\ scenario \in names
    /\ pc = "loop"
    /\ frame = 0
    /\ shouldClose = FALSE
    /\ eyePoses = <<EyePose(0, 0, 0), EyePose(1, 0, 0)>>
    /\ calls = <<>>
    /\ a_pressed = 0 /\ a_hasPressed = FALSE
    /\ riftInput = [ok |-> FALSE, A |-> FALSE]
    /\ x_pressed = 0 /\ x_hasPressed = FALSE
    /\ b_pressed = 0 /\ b_hasPressed = FALSE
    /\ leftIndexP = FALSE /\ rightIndexP = FALSE
    /\ leftThumbP = FALSE /\ rightThumbP = FALSE
    /\ ldelayRender = 0 /\ rdelayRender = 0
    /\ leftCurFrame = Identity /\ rightCurFrame = Identity
    /\ renderFrame = Identity
    /\ cubeScale = 0
    /\ iodOffset = 0
    /\ HmdToEyePose = <<-iod, iod>>
    /\ rotation = mat3(Identity) /\ position = col3(Identity)
    /\ lringBuffer = [i \in 1..Capacity |-> Identity]
    /\ rringBuffer = [i \in 1..Capacity |-> Identity]
    /\ cringBuffer = [i \in 1..Capacity |-> <<1, 1, 1>>]
    /\ lagNum = 0 /\ delayNum = 0
    /\ inputState = NoInput
    /\ whichEye = 0
    /\ headPose = Identity /\ lagFrame = Identity /\ outputFrame = Identity
    /\ right = <<1, 1, 1>>
    /\ drawView = Identity
    /\ RenderPose = <<[Orientation |-> 0, Position |-> <<0, 0>>],
                      [Orientation |-> 0, Position |-> <<0, 0>>]>>
    /\ submitResult = "Success"
    /\ events = <<>>
    /\ lrec = <<>> /\ rrec = <<>>
    /\ lrun = 0 /\ rrun = 0
    /\ nCalls = 0

Init == InitIn(DOMAIN Scenarios)

----------------------------------------------------------------------------
(* GlfwApp::run: the loop test, ++frame, glfwPollEvents (the Escape key    *)
(* sets the close flag through onKey) and update.                          *)
RunLoop ==
    /\ pc = "loop"
    /\ ~shouldClose
    /\ frame < S.frames
    /\ frame' = frame + 1
    /\ \E escape \in BOOLEAN : shouldClose' = escape
    /\ pc' = "draw"
    /\ UNCHANGED <<scenario, eyePoses, calls, a_pressed, a_hasPressed,
                   riftInput, x_pressed, x_hasPressed, b_pressed, b_hasPressed,
                   leftIndexP, rightIndexP, leftThumbP, rightThumbP,
                   ldelayRender, rdelayRender, leftCurFrame, rightCurFrame,
                   renderFrame, cubeScale, iodOffset, HmdToEyePose, rotation,
                   position, lringBuffer, rringBuffer, cringBuffer, lagNum,
                   delayNum, inputState, whichEye, headPose, lagFrame,
                   outputFrame, right, drawView, RenderPose, submitResult,
                   events, lrec, rrec, lrun, rrun, nCalls>>

(* GlfwApp::run: the loop ends once the close flag is set; shutdownGl.     *)
Exit ==
    /\ pc = "loop"
    /\ shouldClose
    /\ pc' = "done"
    /\ UNCHANGED <<scenario, frame, shouldClose, eyePoses, calls, a_pressed,
                   a_hasPressed, riftInput, x_pressed, x_hasPressed, b_pressed,
                   b_hasPressed, leftIndexP, rightIndexP, leftThumbP,
                   rightThumbP, ldelayRender, rdelayRender, leftCurFrame,
                   rightCurFrame, renderFrame, cubeScale, iodOffset,
                   HmdToEyePose, rotation, position, lringBuffer, rringBuffer,
                   cringBuffer, lagNum, delayNum, inputState, whichEye,
                   headPose, lagFrame, outputFrame, right, drawView,
                   RenderPose, submitResult, events, lrec, rrec, lrun, rrun,
                   nCalls>>

\* EyeCalls passing each eye its own index in the mode 3
EyeCalls_NoSwap(a) ==
    CASE a = 0 -> <<[eye |-> 0, whichEye |-> 0], [eye |-> 1, whichEye |-> 1]>>
      [] a = 1 -> <<[eye |-> 0, whichEye |-> 0]>>
      [] a = 2 -> <<[eye |-> 1, whichEye |-> 1]>>
      [] a = 3 -> <<[eye |-> 0, whichEye |-> 0], [eye |-> 1, whichEye |-> 1]>>

\* the renderScene calls draw makes for the eye mode a: the pose of eye
\* `eye` is passed with the eye index `whichEye`
EyeCalls(a) ==
    CASE a = 0 -> <<[eye |-> 0, whichEye |-> 0], [eye |-> 1, whichEye |-> 1]>>
      [] a = 1 -> <<[eye |-> 0, whichEye |-> 0]>>
      [] a = 2 -> <<[eye |-> 1, whichEye |-> 1]>>
      [] a = 3 -> <<[eye |-> 0, whichEye |-> 1], [eye |-> 1, whichEye |-> 0]>>

(* RiftApp::draw up to the first renderScene call: the eye poses are       *)
(* predicted, the input state is read and the A button cycles a_pressed.   *)
(* When reading the input state fails, no eye is rendered.                 *)
DrawBegin ==
    /\ pc = "draw"
    /\ \E yaw \in S.yaw, ok \in S.drawOk,
          a \in (IF "A" \in S.buttons /\ frame >= S.aFrom THEN BOOLEAN
                ELSE {FALSE}) :
        LET edge == ok /\ a /\ ~a_hasPressed
            mode == IF edge THEN (a_pressed + 1) % 4 ELSE a_pressed
        IN  /\ eyePoses' = <<EyePose(0, frame, yaw), EyePose(1, frame, yaw)>>
            /\ riftInput' = [ok |-> ok, A |-> ok /\ a]
            /\ a_pressed' = mode
            /\ a_hasPressed' = (a_hasPressed \/ edge)
            /\ calls' = IF ok THEN EyeCalls(mode) ELSE <<>>
    /\ nCalls' = 0
    /\ events' = BeginFrameEvents
    /\ pc' = "eyes"
    /\ UNCHANGED <<scenario, frame, shouldClose, x_pressed, x_hasPressed,
                   b_pressed, b_hasPressed, leftIndexP, rightIndexP,
                   leftThumbP, rightThumbP, ldelayRender, rdelayRender,
                   leftCurFrame, rightCurFrame, renderFrame, cubeScale,
                   iodOffset, HmdToEyePose, rotation, position, lringBuffer,
                   rringBuffer, cringBuffer, lagNum, delayNum, inputState,
                   whichEye, headPose, lagFrame, outputFrame, right, drawView,
                   RenderPose, submitResult, lrec, rrec, lrun, rrun>>

(* DrawEnd leaving the frame unsubmitted once the window is to close.      *)
DrawEnd_AbortOnClose ==
    /\ pc = "eyes"
    /\ calls = <<>>
    /\ \E result \in S.submit :
          submitResult' = IF shouldClose THEN submitResult ELSE result
    /\ events' = IF shouldClose THEN events ELSE events \o EndFrameEvents
    /\ a_hasPressed' = IF riftInput.ok /\ ~riftInput.A /\ a_hasPressed
                       THEN FALSE ELSE a_hasPressed
    /\ pc' = "loop"
    /\ UNCHANGED <<scenario, frame, shouldClose, eyePoses, calls, a_pressed,
                   riftInput, x_pressed, x_hasPressed, b_pressed, b_hasPressed,
                   leftIndexP, rightIndexP, leftThumbP, rightThumbP,
                   ldelayRender, rdelayRender, leftCurFrame, rightCurFrame,
                   renderFrame, cubeScale, iodOffset, HmdToEyePose, rotation,
                   position, lringBuffer, rringBuffer, cringBuffer, lagNum,
                   delayNum, inputState, whichEye, headPose, lagFrame,
                   outputFrame, right, drawView, RenderPose, lrec, rrec, lrun,
                   rrun, nCalls>>

(* RiftApp::draw after the last renderScene call: the A button's release   *)
(* is noted, the swap chain is committed, the frame submitted, whatever    *)
(* ovr_SubmitFrame returns, and the mirror blitted; finishFrame.           *)
DrawEnd ==
    /\ pc = "eyes"
    /\ calls = <<>>
    /\ \E result \in S.submit : submitResult' = result
    /\ events' = events \o EndFrameEvents
    /\ a_hasPressed' = IF riftInput.ok /\ ~riftInput.A /\ a_hasPressed
                       THEN FALSE ELSE a_hasPressed
    /\ pc' = "loop"
    /\ UNCHANGED <<scenario, frame, shouldClose, eyePoses, calls, a_pressed,
                   riftInput, x_pressed, x_hasPressed, b_pressed, b_hasPressed,
                   leftIndexP, rightIndexP, leftThumbP, rightThumbP,
                   ldelayRender, rdelayRender, leftCurFrame, rightCurFrame,
                   renderFrame, cubeScale, iodOffset, HmdToEyePose, rotation,
                   position, lringBuffer, rringBuffer, cringBuffer, lagNum,
                   delayNum, inputState, whichEye, headPose, lagFrame,
                   outputFrame, right, drawView, RenderPose, lrec, rrec, lrun,
                   rrun, nCalls>>

(* One eye of RiftApp::draw: the render pose of the eye's viewport is set  *)
(* and ExampleApp::renderScene is called, one whole call.                  *)
RenderScene ==
    /\ pc = "eyes"
    /\ calls # <<>>
    /\ \E ok \in S.ok, in \in Snapshots :
        LET eye   == Head(calls).whichEye
            hp    == toGlm(eyePoses[Head(calls).eye + 1])
            lbuf  == IF eye = 0 THEN PopPush(lringBuffer, hp) ELSE lringBuffer
            rbuf  == IF eye = 1 THEN PopPush(rringBuffer, hp) ELSE rringBuffer
            cbuf  == PopPush(cringBuffer, HandPosition(frame))
            x     == IF ok THEN XStep(x_pressed, x_hasPressed, "X" \in in.Buttons)
                     ELSE [count |-> x_pressed, has |-> x_hasPressed]
            sc    == IF ok THEN ScaleStep(cubeScale, in.Thumbstick[1],
                                          "LThumb" \in in.Buttons)
                     ELSE cubeScale
            b     == IF ok THEN BStep(b_pressed, b_hasPressed, rotation, position,
                                      "B" \in in.Buttons, hp)
                     ELSE [count |-> b_pressed, has |-> b_hasPressed,
                           rot |-> rotation, pos |-> position]
            io    == IF ok THEN IodStep(iodOffset, HmdToEyePose, in.Thumbstick[2],
                                        "RThumb" \in in.Buttons)
                     ELSE [offset |-> iodOffset, eyes |-> HmdToEyePose]
            lg    == IF ok THEN LagStep(lagNum, leftIndexP, rightIndexP,
                                        in.IndexTrigger[1], in.IndexTrigger[2])
                     ELSE [lagNum |-> lagNum, leftIndexP |-> leftIndexP,
                           rightIndexP |-> rightIndexP]
            dl    == IF ok THEN DelayStep(delayNum, leftThumbP, rightThumbP,
                                          in.HandTrigger[1], in.HandTrigger[2])
                     ELSE [delayNum |-> delayNum, leftThumbP |-> leftThumbP,
                           rightThumbP |-> rightThumbP]
            lagF  == IF eye = 0 THEN Lagged(lbuf, lg.lagNum)
                     ELSE Lagged(rbuf, lg.lagNum)
            hold  == DelayHold(eye, hp, ldelayRender, rdelayRender, leftCurFrame,
                               rightCurFrame, renderFrame, dl.delayNum)
            out   == SelectOutput(hp, lagF, hold.renderFrame, lg.lagNum,
                                  dl.delayNum)
        IN  /\ io.offset <= MaxIodOffset /\ io.offset >= -MaxIodOffset
            /\ lringBuffer' = lbuf
            /\ rringBuffer' = rbuf
            /\ cringBuffer' = cbuf
            /\ inputState' = IF ok THEN in ELSE inputState
            /\ x_pressed' = x.count /\ x_hasPressed' = x.has
            /\ cubeScale' = sc
            /\ b_pressed' = b.count /\ b_hasPressed' = b.has
            /\ rotation' = b.rot /\ position' = b.pos
            /\ iodOffset' = io.offset /\ HmdToEyePose' = io.eyes
            /\ lagNum' = lg.lagNum
            /\ leftIndexP' = lg.leftIndexP /\ rightIndexP' = lg.rightIndexP
            /\ delayNum' = dl.delayNum
            /\ leftThumbP' = dl.leftThumbP /\ rightThumbP' = dl.rightThumbP
            /\ ldelayRender' = hold.ldelayRender
            /\ rdelayRender' = hold.rdelayRender
            /\ leftCurFrame' = hold.leftCurFrame
            /\ rightCurFrame' = hold.rightCurFrame
            /\ renderFrame' = hold.renderFrame
            /\ whichEye' = eye
            /\ headPose' = hp
            /\ lagFrame' = lagF
            /\ right' = Lagged(cbuf, lg.lagNum)
            /\ outputFrame' = out
            /\ drawView' = SceneRender(drawView, inverse(out), b.count, b.rot,
                                       b.pos)
            /\ RenderPose' = [RenderPose EXCEPT ![Head(calls).eye + 1] =
                                                 eyePoses[Head(calls).eye + 1]]
            /\ events' = events \o CallEvents(Head(calls).eye, eye)
            /\ lrec' = IF eye = 0 THEN Append(lrec, hp) ELSE lrec
            /\ rrec' = IF eye = 1 THEN Append(rrec, hp) ELSE rrec
            /\ lrun' = Run(lrun, eye = 0, dl.delayNum # delayNum)
            /\ rrun' = Run(rrun, eye = 1, dl.delayNum # delayNum)
    /\ calls' = Tail(calls)
    /\ nCalls' = nCalls + 1
    /\ UNCHANGED <<scenario, pc, frame, shouldClose, eyePoses, a_pressed,
                   a_hasPressed, riftInput, submitResult>>

Next == RunLoop \/ DrawBegin \/ RenderScene \/ DrawEnd \/ Exit

Spec == Init /\ [][Next]_vars

\* the runs of one scenario each
SpecLag   == InitIn({"lag"}) /\ [][Next]_vars
SpecDelay == InitIn({"delay"}) /\ [][Next]_vars
SpecView  == InitIn({"view"}) /\ [][Next]_vars
SpecIod   == InitIn({"iod"}) /\ [][Next]_vars
SpecMode  == InitIn({"mode"}) /\ [][Next]_vars
SpecBoth  == InitIn({"both"}) /\ [][Next]_vars
SpecSubmit == InitIn({"submit"}) /\ [][Next]_vars
SpecLine  == InitIn({"line"}) /\ [][Next]_vars
SpecHold  == InitIn({"hold"}) /\ [][Next]_vars
SpecContent == InitIn({"content"}) /\ [][Next]_vars

\* the loop keeps running: every call of a frame returns
SpecClose == InitIn({"submit"}) /\ [][Next]_vars /\ WF_vars(Next)

SpecCounters == InitIn({"lag", "delay"}) /\ [][Next]_vars

----------------------------------------------------------------------------
(* Properties.                                                             *)

\* a renderScene call of the current frame has returned; whichEye,
\* headPose, lagFrame, outputFrame, right and drawView are that call's
AfterCall == pc = "eyes" /\ nCalls > 0

\* the last snapshot shows the button down and the one before did not
ButtonEdge(name) ==
    name \in inputState'.Buttons /\ name \notin inputState.Buttons

\* trigger i crossed from released (<= 0.5) to pressed (> 0.5)
IndexEdge(i) ==
    inputState'.IndexTrigger[i] > Half /\ inputState.IndexTrigger[i] <= Half

HandEdge(i) ==
    inputState'.HandTrigger[i] > Half /\ inputState.HandTrigger[i] <= Half

\* C1: each of the three history buffers has length exactly 60 in every
\* state, so after every renderScene call, in every eye-render mode.
C1_BufferLength ==
    /\ Len(lringBuffer) = 60
    /\ Len(rringBuffer) = 60
    /\ Len(cringBuffer) = 60

C1_Witness ==
    /\ AfterCall /\ nCalls = 2 /\ a_pressed = 3 /\ whichEye = 0
    /\ Len(lrec) >= 3
    /\ Len(lringBuffer) = 60 /\ lringBuffer[60] = headPose
    /\ Len(cringBuffer) = 60 /\ cringBuffer[60] = HandPosition(frame)

\* C2: once 60 poses have been recorded into an eye's buffer, the entry at
\* 60 - l - 1 is the pose recorded l record-calls ago, for every lag l in
\* 0..59, and the lagged pose a call reads is the one recorded lagNum calls ago.
C2_LaggedRead ==
    /\ \A l \in 0..59 :
        /\ Len(lrec) >= 60 => Lagged(lringBuffer, l) = lrec[Len(lrec) - l]
        /\ Len(rrec) >= 60 => Lagged(rringBuffer, l) = rrec[Len(rrec) - l]
    /\ (AfterCall /\ whichEye = 0 /\ Len(lrec) >= 60)
          => lagFrame = lrec[Len(lrec) - lagNum]
    /\ (AfterCall /\ whichEye = 1 /\ Len(rrec) >= 60)
          => lagFrame = rrec[Len(rrec) - lagNum]

C2_Witness ==
    /\ AfterCall /\ whichEye = 0 /\ Len(lrec) >= 60 /\ lagNum = 59
    /\ lagFrame = lringBuffer[1]
    /\ lagFrame = toGlm(EyePose(0, frame - 59, 1))

\* C3: b_pressed starts at 0 and a step changes it only by adding one modulo 4,
\* exactly when the B button is down in a snapshot and was up in the one before.
C3_ViewModeEdges ==
    /\ b_pressed = 0
    /\ [][b_pressed' = IF ButtonEdge("B") THEN (b_pressed + 1) % 4
                       ELSE b_pressed]_vars

C3_Witness ==
    /\ AfterCall /\ b_pressed = 0 /\ "B" \in inputState.Buttons
    /\ a_pressed # 0

\* C4: lagNum is in [0, 59] and delayNum is in [0, 10] in every state.
C4_CounterRanges ==
    /\ lagNum >= 0 /\ lagNum <= 59
    /\ delayNum >= 0 /\ delayNum <= 10

C4_Witness ==
    /\ AfterCall /\ nCalls = 1 /\ frame >= 11
    /\ delayNum = 10 /\ rightThumbP /\ inputState.HandTrigger[2] > Half

\* C5: an increment edge adds one to its counter but leaves lagNum at 59 and
\* delayNum at 10; a decrement edge subtracts one but leaves the counter at 0.
C5_Clamped ==
    [][/\ (IndexEdge(2) /\ ~IndexEdge(1))
            => lagNum' = IF lagNum = 59 THEN 59 ELSE lagNum + 1
       /\ (IndexEdge(1) /\ ~IndexEdge(2))
            => lagNum' = IF lagNum = 0 THEN 0 ELSE lagNum - 1
       /\ (HandEdge(2) /\ ~HandEdge(1))
            => delayNum' = IF delayNum = 10 THEN 10 ELSE delayNum + 1
       /\ (HandEdge(1) /\ ~HandEdge(2))
            => delayNum' = IF delayNum = 0 THEN 0 ELSE delayNum - 1]_vars

\* C6: lagNum changes in a step only if an index trigger crossed from released
\* to pressed, and delayNum only if a hand trigger did.
C6_EdgeTriggered ==
    [][/\ lagNum' # lagNum => (IndexEdge(1) \/ IndexEdge(2))
       /\ delayNum' # delayNum => (HandEdge(1) \/ HandEdge(2))]_vars

\* C7: the accumulated iodOffset keeps the interocular distance iod + iodOffset
\* within [-0.1, 0.3] in every state.
C7_IodOffsetInRange ==
    /\ iod + iodOffset >= MinIOD
    /\ iod + iodOffset <= MaxIOD

\* C8: the step that enters b_pressed = 3 captures the inverse of the head pose
\* and renders with drawView made of the captured rotation and position; while
\* b_pressed stays 3, no step changes drawView or the captured values.
C8_FullyFrozen ==
    [][b_pressed' = 3 =>
         IF b_pressed = 3
         THEN /\ drawView' = drawView
              /\ rotation' = rotation /\ position' = position
         ELSE /\ rotation' = mat3(inverse(headPose'))
              /\ position' = col3(inverse(headPose'))
              /\ drawView' = [rot |-> rotation', pos |-> position']]_vars

C8_Witness ==
    /\ AfterCall /\ b_pressed = 3 /\ "B" \notin inputState.Buttons
    /\ delayNum > 0
    /\ drawView = [rot |-> rotation, pos |-> position]
    /\ drawView # inverse(outputFrame)
    /\ drawView # inverse(headPose)

\* the hold of one eye's pose after a call for that eye: cur and cur1 are the
\* captured pose before and after the call, run1 the calls for the eye since
\* delayNum last changed, rec1 the poses passed for the eye so far
C9_HeldFor(cur, cur1, run1, rec1) ==
    LET N   == delayNum'
        age == frame - col3(cur1)[1]
    IN  /\ run1 > age =>
              /\ age <= N - 1
              /\ outputFrame' = cur1
              /\ cur1 = rec1[Len(rec1) - age]
        /\ (cur1 # cur /\ cur # Identity /\ run1 > frame - col3(cur)[1])
              => frame - col3(cur)[1] = N

\* C9: with both eyes rendered every frame and delayNum = N >= 1 unchanged
\* since the call that captured an eye's pose, a call for that eye renders with
\* the captured pose, the capture is at most N - 1 frames old, and the next
\* capture comes exactly N frames after it.
C9_DelayHold ==
    [][(nCalls' = nCalls + 1 /\ delayNum' >= 1) =>
          /\ whichEye' = 0 =>
                C9_HeldFor(leftCurFrame, leftCurFrame', lrun', lrec')
          /\ whichEye' = 1 =>
                C9_HeldFor(rightCurFrame, rightCurFrame', rrun', rrec')]_vars

C9_Witness ==
    /\ AfterCall /\ whichEye = 0 /\ delayNum = 3 /\ lrun >= 4
    /\ leftCurFrame = headPose /\ outputFrame = headPose

\* C10: after a renderScene call the output pose is renderFrame if
\* delayNum > 0, else the lagged entry of the eye's buffer if lagNum > 0, else
\* the head pose passed in.
C10_OutputSelection ==
    AfterCall =>
        /\ delayNum > 0 => outputFrame = renderFrame
        /\ (delayNum = 0 /\ lagNum > 0) =>
              /\ outputFrame = lagFrame
              /\ outputFrame = (IF whichEye = 0 THEN lringBuffer
                                ELSE rringBuffer)[60 - lagNum]
        /\ (delayNum = 0 /\ lagNum = 0) => outputFrame = headPose

C10_Witness ==
    /\ AfterCall /\ delayNum > 0 /\ lagNum > 0
    /\ outputFrame = renderFrame
    /\ renderFrame # lagFrame /\ lagFrame # headPose /\ lagFrame # Identity

----------------------------------------------------------------------------
(* Properties of the frame as a whole.                                     *)

\* draw and finishFrame have returned for the current frame; events is the
\* whole frame's
FrameDone == pc = "loop" /\ frame > 0

\* the number of times the operation ev was done in the current frame
CountEv(ev) == Cardinality({i \in DOMAIN events : events[i] = ev})

\* every time the operation b was done in the current frame, the operation a
\* had been done before it
Precedes(a, b) ==
    \A j \in DOMAIN events :
        events[j] = b => \E i \in 1..(j - 1) : events[i] = a

\* C11: at the end of every frame, each eye's buffer has had exactly one pop
\* and push in that frame, so each eye's history holds one pose per frame run.
C11_OneRecordPerEye ==
    FrameDone =>
        /\ CountEv(<<"push", 0>>) = 1 /\ CountEv(<<"push", 1>>) = 1
        /\ Len(lrec) = frame /\ Len(rrec) = frame

\* C12: at the end of every frame, cringBuffer has had exactly one pop and push
\* in that frame: exactly one of its entries is the hand position of the frame.
C12_CursorOncePerFrame ==
    FrameDone =>
        /\ CountEv(<<"recordCursor">>) = 1
        /\ Cardinality({i \in 1..60 : cringBuffer[i] = HandPosition(frame)}) = 1

\* C13: whenever a frame has been submitted, both eyes were resolved in that
\* frame before the submit: RenderPose of each eye is the frame's pose of that
\* eye, and renderScene was called for each eye's viewport.
C13_BothEyesResolved ==
    CountEv(<<"submit">>) > 0 =>
        \A e \in {0, 1} :
            /\ RenderPose[e + 1] = eyePoses[e + 1]
            /\ CountEv(<<"RenderPose", e>>) = 1
            /\ CountEv(<<"renderScene", e>>) = 1
            /\ Precedes(<<"renderScene", e>>, <<"submit">>)

\* C14: once ovr_SubmitFrame has reported the loss of the device, no further
\* frame is started.
C14_DeviceLostTerminates ==
    [][submitResult = "DeviceLost" => frame' = frame]_vars

\* C15: a frame whose submit failed with a failure that can be retried is not
\* presented: neither the mirror blit nor the buffer swap is done for it.
C15_RetryNotPresented ==
    (FrameDone /\ submitResult = "SubmitRetry") =>
        /\ CountEv(<<"blit">>) = 0
        /\ CountEv(<<"present">>) = 0

\* C16: in every frame (a) the push of an eye's pose comes before the lagged
\* read and the resolution for that eye, and the lagged read sees the push;
\* (b) the swap-chain texture is acquired and bound before any eye is drawn;
\* (c) the swap chain is committed and the frame submitted before the mirror
\* blit.
C16_Ordering ==
    /\ \A w \in {0, 1} :
        /\ Precedes(<<"push", w>>, <<"lagged", w>>)
        /\ Precedes(<<"lagged", w>>, <<"resolve", w>>)
        /\ Precedes(<<"acquire">>, <<"draw", w>>)
        /\ Precedes(<<"bind">>, <<"draw", w>>)
    /\ AfterCall =>
        /\ lagFrame = Lagged(IF whichEye = 0 THEN lringBuffer ELSE rringBuffer,
                             lagNum)
        /\ lagNum = 0 => lagFrame = headPose
    /\ Precedes(<<"commit">>, <<"blit">>)
    /\ Precedes(<<"submit">>, <<"blit">>)

C16_Witness ==
    /\ FrameDone /\ a_pressed = 3
    /\ CountEv(<<"draw", 0>>) = 1 /\ CountEv(<<"draw", 1>>) = 1
    /\ CountEv(<<"blit">>) = 1 /\ CountEv(<<"submit">>) = 1
    /\ lagFrame = headPose /\ lagFrame # Identity

\* C17: after a renderScene call, with view the inverse of the output pose:
\* drawView is view for b_pressed = 0; the captured rotation with view's
\* translation for 1; view's rotation with the captured position for 2; the
\* captured rotation and position for 3.
C17_CameraTransform ==
    AfterCall =>
        LET view == inverse(outputFrame)
        IN  /\ b_pressed = 0 => drawView = view
            /\ b_pressed = 1 => drawView = [rot |-> rotation, pos |-> col3(view)]
            /\ b_pressed = 2 => drawView = [rot |-> mat3(view), pos |-> position]
            /\ b_pressed = 3 => drawView = [rot |-> rotation, pos |-> position]

C17_Witness ==
    /\ AfterCall /\ b_pressed = 2 /\ delayNum > 0
    /\ drawView = [rot |-> mat3(inverse(outputFrame)), pos |-> position]
    /\ mat3(drawView) # rotation
    /\ col3(drawView) # col3(inverse(outputFrame))
    /\ outputFrame # headPose

\* C18: at a B press the captured rotation and position are those of the
\* inverse of the output pose of that call, the pose the call renders with.
C18_CaptureFromOutput ==
    [][ButtonEdge("B") =>
          /\ rotation' = mat3(inverse(outputFrame'))
          /\ position' = col3(inverse(outputFrame'))]_vars

\* C19: a B press that enters b_pressed = 2 or b_pressed = 0 leaves the
\* captured rotation and position as they were.
C19_CapturePersists ==
    [][(b_pressed' # b_pressed /\ b_pressed' \in {0, 2}) =>
          /\ rotation' = rotation
          /\ position' = position]_vars

\* C20: with delayNum > 0, the pose a renderScene call for an eye renders with
\* is one of the poses passed to renderScene for that eye so far.
C20_HoldPerEye ==
    (AfterCall /\ delayNum > 0) =>
        LET rec == IF whichEye = 0 THEN lrec ELSE rrec
        IN  \E i \in DOMAIN rec : rec[i] = outputFrame

\* the eye whose viewport and pose the last renderScene call was made for:
\* in the swapped mode it is the other eye than the index passed
LastEye == IF a_pressed = 3 THEN 1 - whichEye ELSE whichEye

\* C21: from frame 60 on, with delayNum = 0 and lagNum = l > 0, the pose a
\* renderScene call renders with is the pose predicted for that eye in frame
\* frame - l, whatever the eye modes of the frames before.
C21_DelayLineByFrame ==
    (AfterCall /\ frame >= 60 /\ delayNum = 0 /\ lagNum > 0) =>
        col3(outputFrame) = <<frame - lagNum, LastEye>>

\* C22: the cursor position a renderScene call renders with was recorded in
\* the same frame as the lagged head pose the call retrieved.
C22_CursorSynchronized ==
    (AfterCall /\ lagFrame # Identity) =>
        right = HandPosition(col3(lagFrame)[1])

\* C23: a renderScene call that follows, in the same frame, a call that added
\* the thumbstick deflection to cubeScale or iodOffset adds none itself.
C23_AccumulateOncePerFrame ==
    [][(nCalls = 1 /\ nCalls' = 2) =>
          /\ (inputState.Thumbstick[2] # 0
                 /\ "RThumb" \notin inputState'.Buttons)
                => iodOffset' = iodOffset
          /\ (inputState.Thumbstick[1] # 0
                 /\ "LThumb" \notin inputState'.Buttons)
                => cubeScale' = cubeScale]_vars

\* one step of the program as the eye mode a_pressed selects it; rightKept
\* and leftKept say what a call for one eye may do to the other eye's hold
\* counter
C24_Step(rightKept, leftKept) ==
    /\ a_pressed' = IF riftInput'.A /\ ~riftInput.A THEN (a_pressed + 1) % 4
                    ELSE a_pressed
    /\ (pc = "eyes" /\ pc' = "loop") =>
          nCalls = (IF a_pressed \in {0, 3} THEN 2 ELSE 1)
    /\ nCalls' = nCalls + 1 =>
          /\ headPose' = toGlm(eyePoses[LastEye' + 1])
          /\ RenderPose'[LastEye' + 1] = eyePoses[LastEye' + 1]
          /\ a_pressed = 0 => whichEye' = nCalls
          /\ a_pressed = 3 => whichEye' = 1 - nCalls
          /\ a_pressed = 1 =>
                /\ whichEye' = 0
                /\ rringBuffer' = rringBuffer /\ rrec' = rrec
                /\ rightCurFrame' = rightCurFrame
                /\ rightKept
          /\ a_pressed = 2 =>
                /\ whichEye' = 1
                /\ lringBuffer' = lringBuffer /\ lrec' = lrec
                /\ leftCurFrame' = leftCurFrame
                /\ leftKept

C26_CloseBetweenFrames ==
    /\ [][/\ shouldClose => (frame' = frame /\ shouldClose')
          /\ pc' = "done" => (pc \in {"loop", "done"} /\ shouldClose)]_vars
    /\ [](pc = "done" =>
            /\ shouldClose
            /\ CountEv(<<"submit">>) = 1
            /\ CountEv(<<"blit">>) = 1
            /\ CountEv(<<"present">>) = 1)
    /\ (shouldClose ~> pc = "done")

C26_Witness ==
    /\ pc = "done" /\ shouldClose /\ frame = 2
    /\ nCalls = 2 /\ CountEv(<<"blit">>) = 1

\* C27: in every state, so after every renderScene call, both hold counters
\* are at least 0 and at most delayNum - 1, or 0 when delayNum is 0.
C27_HoldCounterRange ==
    LET top == IF delayNum >= 1 THEN delayNum - 1 ELSE 0
    IN  /\ ldelayRender >= 0 /\ ldelayRender <= top
        /\ rdelayRender >= 0 /\ rdelayRender <= top

C27_Witness ==
    /\ AfterCall /\ a_pressed = 1 /\ delayNum = 2
    /\ ldelayRender = 1 /\ rdelayRender = 0 /\ leftThumbP
    /\ Len(rrec) >= 1

\* C28: every entry of lringBuffer is the identity or a pose predicted for the
\* left eye, and every entry of rringBuffer the identity or a pose predicted
\* for the right eye.
C28_OwnEyePoses ==
    \A i \in 1..60 :
        /\ lringBuffer[i] = Identity \/ col3(lringBuffer[i])[2] = 0
        /\ rringBuffer[i] = Identity \/ col3(rringBuffer[i])[2] = 1

====
